---- MODULE Spec2Model ----
(***************************************************************************)
(* Model of djangocms_text_ckeditor/cms_plugins.py: the TextPlugin         *)
(* descriptor of a django CMS installation.                                *)
(*                                                                         *)
(*   Spec       the request handlers add_view, delete_on_cancel and        *)
(*              save_model acting on the table of CMSPlugin records        *)
(*   SpecToken  get_cancel_token applied to plugin objects                 *)
(*   SpecForm   get_form_class / get_editor_widget building form classes   *)
(*                                                                         *)
(* Python's None is modelled by the empty set and a present value v by     *)
(* {v}, so that an optional value is a set of at most one element.         *)
(***************************************************************************)
EXTENDS Integers, Sequences, FiniteSets, TLC

VARIABLES
    plugins,      \* the CMSPlugin table: primary key -> record
    nextPk,       \* the primary key the database gives the next record
    host_has_validate_add_request, \* hasattr(self, 'validate_add_request')
    request,      \* the request the last handler call served
    response,     \* what that call returned
    calls,        \* the calls that handler made, in order, with results
    added,        \* history: per record add_view made, the table before it
    issued,       \* SpecToken: the tokens get_cancel_token has returned
    verified,     \* SpecToken: the last is_valid_token call and its result
    classes,      \* SpecForm: the form classes that exist, by identity
    returned      \* SpecForm: get_form_class calls and what each returned

vars == <<plugins, nextPk, host_has_validate_add_request, request, response,
          calls, added, issued, verified, classes, returned>>

mainVars == <<plugins, nextPk, host_has_validate_add_request, request,
              response, calls, added>>

----------------------------------------------------------------------------
(* Bounds and input sets *)

MaxPk == 2

\* SpecToken: primary keys run to MaxTokenPk, and MaxIssued tokens are kept
MaxTokenPk == 11
MaxIssued == 2

\* SpecForm: the number of get_form_class calls
MaxFormCalls == 2

PluginTypes == {"TextPlugin", "LinkPlugin"}

PKs == 1..MaxPk

\* self.__class__.__name__ of the handling plugin
plugin_type == "TextPlugin"

----------------------------------------------------------------------------
(* django.core.signing as used by get_cancel_token *)

\* force_text(pk): the decimal digits of pk, most significant first
Digit(d) == <<"0", "1", "2", "3", "4", "5", "6", "7", "8", "9">>[d + 1]

RECURSIVE force_text(_)
force_text(n) == IF n < 10 THEN Digit(n)
                 ELSE force_text(n \div 10) \o Digit(n % 10)

\* Signer(salt).signature(value): the base64 MAC of value under the key
\* derived from salt + 'signer' and the secret key. It is kept symbolic: one
\* opaque chunk of text that names what was signed and with which key salt.
Signature(salt, value) == "mac[" \o salt \o "signer" \o "|" \o value \o "]"

\* Signer(salt).sign(value): value, the separator, the signature, as a
\* sequence of chunks of text.
Sign(salt, value) ==
    <<force_text(value), ":", Signature(salt, force_text(value))>>

\* str.split(sep): the parts between the separators
RECURSIVE Split(_, _)
Split(s, sep) ==
    IF s = <<>> THEN << <<>> >>
    ELSE LET rest == Split(Tail(s), sep)
         IN  IF Head(s) = sep THEN << <<>> >> \o rest
             ELSE << <<Head(s)>> \o Head(rest) >> \o Tail(rest)

\* A mutant of get_cancel_token: one salt for every plugin type.
get_cancel_token_fixed_salt(obj) == Split(Sign("cancel", obj.pk), ":")[2]

get_cancel_token(obj) == Split(Sign(obj.plugin_type, obj.pk), ":")[2]

----------------------------------------------------------------------------
(* Values the handlers build *)

\* One call a handler made: the function, the object it was called on, the
\* id of the record or placeholder concerned (0 when none), and its result.
Call(fn, on, id, result) == [fn |-> fn, on |-> on, id |-> id, result |-> result]

\* An HTTP response: status, content, and the redirect location if any.
Response(status, content, location) ==
    [status |-> status, content |-> content, location |-> location]

\* The request no handler has served yet.
NoRequest == [op |-> "none"]

----------------------------------------------------------------------------
(* The CMSPlugin table *)

Children(store, pk) == {q \in DOMAIN store : store[q].parent = {pk}}

\* The records below pk in the plugin tree.
RECURSIVE Descendants(_, _)
Descendants(store, pk) ==
    Children(store, pk)
        \cup UNION {Descendants(store, c) : c \in Children(store, pk)}

\* plugin.delete(): the record goes, and the records below it with it.
Delete(store, pk) ==
    [q \in DOMAIN store \ ({pk} \cup Descendants(store, pk)) |-> store[q]]

----------------------------------------------------------------------------
(* DeleteOnCancelForm: a plugin field that must name a stored record and a *)
(* required token field.                                                   *)

\* `request.POST or None`: an empty POST gives the form no data.
IsBound(POST) == POST.plugin # {} \/ POST.token # {}

\* form.errors.values(), in field order; empty for a form without data.
FormErrors(store, POST) ==
    IF ~IsBound(POST) THEN <<>>
    ELSE (IF POST.plugin = {}
            THEN <<"plugin: This field is required.">>
          ELSE IF ~(POST.plugin \subseteq DOMAIN store)
            THEN <<"plugin: Select a valid choice.">>
          ELSE <<>>)
         \o (IF POST.token = {} THEN <<"token: This field is required.">>
             ELSE <<>>)

\* form.is_valid()
is_valid(store, POST) == IsBound(POST) /\ FormErrors(store, POST) = <<>>

\* Signer(salt).unsign(signed): the text after the last separator must be
\* the signature of the text before it.
Unsigns(salt, signed) ==
    /\ Len(signed) = 3
    /\ signed[2] = ":"
    /\ signed[3] = Signature(salt, signed[1])

\* form.is_valid_token(): the submitted token must be the signature of the
\* record's primary key under the record's plugin type as salt.
is_valid_token(plugin, token) ==
    Unsigns(plugin.plugin_type, <<force_text(plugin.pk), ":">> \o token)

----------------------------------------------------------------------------
(* delete_on_cancel *)

\* A mutant of add_permission_calls: always the handling plugin's own check.
add_permission_calls_self_only(plugin, add_perm) ==
    <<Call("has_add_permission", "self", 0, add_perm[plugin_type])>>

\* The add-permission check on the plugin type: the calls made, the last of
\* which gives has_add_permission.
add_permission_calls(plugin, add_perm) ==
    IF plugin.plugin_type = plugin_type
      THEN <<Call("has_add_permission", "self", 0, add_perm[plugin_type])>>
      ELSE <<Call("get_plugin_class_instance", plugin.plugin_type,
                  plugin.pk, TRUE),
             Call("has_add_permission", plugin.plugin_type, 0,
                  add_perm[plugin.plugin_type])>>

\* has_add_permission and placeholder.has_add_permission(request): the
\* second operand is evaluated only when the first is true.
permission_calls(plugin, add_perm, ph_perm) ==
    LET first == add_permission_calls(plugin, add_perm)
    IN  IF first[Len(first)].result
          THEN first \o <<Call("placeholder.has_add_permission", "placeholder",
                               plugin.placeholder, ph_perm)>>
          ELSE first

Granted(perm_calls) == \A i \in 1..Len(perm_calls) : perm_calls[i].result

Outcome(cs, resp, del) == [calls |-> cs, response |-> resp, delete |-> del]

\* A mutant of after_permission: the token is verified before the
\* permission result is looked at.
after_permission_token_first(plugin, token, granted) ==
    IF ~is_valid_token(plugin, token)
      THEN Outcome(<<Call("form.is_valid_token", "form", plugin.pk, FALSE)>>,
                   Response(400,
                       "Unable to process your request. Invalid token.", {}),
                   {})
    ELSE IF ~granted
      THEN Outcome(<<Call("form.is_valid_token", "form", plugin.pk, TRUE)>>,
                   Response(403, "Unable to process your request. You don't have the required permissions.", {}),
                   {})
    ELSE Outcome(<<Call("form.is_valid_token", "form", plugin.pk, TRUE),
                   Call("plugin.delete", "plugin", plugin.pk, TRUE)>>,
                 Response(204, "", {}),
                 {plugin.pk})

\* A mutant of after_permission: the record is deleted without looking at
\* the token.
after_permission_no_token(plugin, token, granted) ==
    IF ~granted
      THEN Outcome(<<>>,
                   Response(403, "Unable to process your request. You don't have the required permissions.", {}),
                   {})
      ELSE Outcome(<<Call("plugin.delete", "plugin", plugin.pk, TRUE)>>,
                   Response(204, "", {}),
                   {plugin.pk})

\* A mutant of after_permission: the record is deleted before the token is
\* verified, and stays deleted when the token turns out invalid.
after_permission_delete_early(plugin, token, granted) ==
    IF ~granted
      THEN Outcome(<<>>,
                   Response(403, "Unable to process your request. You don't have the required permissions.", {}),
                   {})
    ELSE IF is_valid_token(plugin, token)
      THEN Outcome(<<Call("plugin.delete", "plugin", plugin.pk, TRUE),
                     Call("form.is_valid_token", "form", plugin.pk, TRUE)>>,
                   Response(204, "", {}),
                   {plugin.pk})
    ELSE Outcome(<<Call("plugin.delete", "plugin", plugin.pk, TRUE),
                   Call("form.is_valid_token", "form", plugin.pk, FALSE)>>,
                 Response(400,
                     "Unable to process your request. Invalid token.", {}),
                 {plugin.pk})

\* The if / elif / else that follows the permission checks.
after_permission(plugin, token, granted) ==
    IF ~granted
      THEN Outcome(<<>>,
                   Response(403, "Unable to process your request. You don't have the required permissions.", {}),
                   {})
    ELSE IF is_valid_token(plugin, token)
      THEN Outcome(<<Call("form.is_valid_token", "form", plugin.pk, TRUE),
                     Call("plugin.delete", "plugin", plugin.pk, TRUE)>>,
                   Response(204, "", {}),
                   {plugin.pk})
    ELSE Outcome(<<Call("form.is_valid_token", "form", plugin.pk, FALSE)>>,
                 Response(400,
                     "Unable to process your request. Invalid token.", {}),
                 {})

\* list(form.errors.values())[0] and the response made of it; the index is
\* out of range when the form has no errors, and the IndexError leaves the
\* handler for the host's error handling (a server error).
invalid_form_response(errors) ==
    IF errors = <<>> THEN Response(500, "IndexError", {})
    ELSE Response(400, errors[1], {})

\* The whole handler on a given table: calls made, response, record deleted.
delete_on_cancel_run(store, POST, add_perm, ph_perm) ==
    LET valid == is_valid(store, POST)
        first == <<Call("form.is_valid", "form", 0, valid)>>
    IN  IF ~valid
          THEN Outcome(first,
                       invalid_form_response(FormErrors(store, POST)), {})
          ELSE LET plugin == store[CHOOSE p \in POST.plugin : TRUE]
                   token  == CHOOSE t \in POST.token : TRUE
                   perms  == permission_calls(plugin, add_perm, ph_perm)
                   rest   == after_permission(plugin, token, Granted(perms))
               IN  Outcome(first \o perms \o rest.calls, rest.response,
                           rest.delete)

----------------------------------------------------------------------------
(* add_view *)

\* dict.get(key): None when the key is absent
DictGet(d, key) == IF key \in DOMAIN d THEN {d[key]} ELSE {}

\* The data validate_add_request returns for the requests drawn: each
\* language, plugin type, position and placeholder occurs, with or without
\* a parent plugin, which is a stored record.
ValidatedData(store) ==
    LET base == {[plugin_language |-> "en", plugin_type |-> "TextPlugin",
                  position |-> 0, placeholder_id |-> 1],
                 [plugin_language |-> "de", plugin_type |-> "LinkPlugin",
                  position |-> 1, placeholder_id |-> 2]}
    IN  base \cup
        {[plugin_language |-> d.plugin_language, plugin_type |-> d.plugin_type,
          position |-> d.position, placeholder_id |-> d.placeholder_id,
          plugin_parent |-> p] : d \in base, p \in DOMAIN store}

\* A mutant of CMSPlugin_create: the parent is dropped.
CMSPlugin_create_no_parent(pk, data) ==
    [pk |-> pk,
     language |-> data.plugin_language,
     plugin_type |-> data.plugin_type,
     position |-> data.position,
     placeholder |-> data.placeholder_id,
     parent |-> {}]

\* CMSPlugin.objects.create(...): the record the database stores under the
\* primary key pk it assigns.
CMSPlugin_create(pk, data) ==
    [pk |-> pk,
     language |-> data.plugin_language,
     plugin_type |-> data.plugin_type,
     position |-> data.position,
     placeholder |-> data.placeholder_id,
     parent |-> DictGet(data, "plugin_parent")]

\* admin_reverse('cms_page_edit_plugin', args=(pk,)) + '?delete-on-cancel'
success_url(pk) == <<"cms_page_edit_plugin", force_text(pk), "?delete-on-cancel">>

\* The handler on a given table: calls made, response, record created.
\* validated is what validate_add_request does when called: the exception
\* it raises ("" when none) and the data it returns.
add_view_run(pk, has_validate, plugin_instance, validated) ==
    IF ~has_validate \/ plugin_instance # {}
      THEN [calls |-> <<Call("super.add_view", "self", 0, TRUE)>>,
            response |-> Response(200, "CMSPluginBase.add_view", {}),
            create |-> {}]
    ELSE IF validated.raises = "PermissionDenied"
      THEN [calls |-> <<Call("validate_add_request", "self", 0, FALSE)>>,
            response |-> Response(403,
                "You do not have permission to add a plugin", {}),
            create |-> {}]
    ELSE IF validated.raises = "ValidationError"
      THEN [calls |-> <<Call("validate_add_request", "self", 0, FALSE)>>,
            response |-> Response(400, validated.message, {}),
            create |-> {}]
    ELSE LET plugin == CMSPlugin_create(pk, validated.data)
         IN  [calls |-> <<Call("validate_add_request", "self", 0, TRUE),
                          Call("CMSPlugin.objects.create", "CMSPlugin",
                               plugin.pk, TRUE)>>,
              response |-> Response(302, "", {success_url(plugin.pk)}),
              create |-> {plugin}]

\* The outcomes of validate_add_request drawn for a request.
Validations(store) ==
    {[raises |-> "PermissionDenied", message |-> "", data |-> <<>>],
     [raises |-> "ValidationError", message |-> "Parent plugin is invalid",
      data |-> <<>>]}
    \cup {[raises |-> "", message |-> "", data |-> d] : d \in ValidatedData(store)}

\* One add_view call with the given inputs.
AddViewStep(plugin_instance, validated) ==
    LET r == add_view_run(nextPk, host_has_validate_add_request,
                          plugin_instance, validated)
        called == r.calls[1].fn = "validate_add_request"
    IN  /\ r.create # {} => nextPk <= MaxPk
        /\ request' = [op |-> "add_view",
                       plugin_instance |-> plugin_instance,
                       raises |-> IF called THEN validated.raises
                                  ELSE "not called",
                       data |-> IF called /\ validated.raises = ""
                                  THEN {validated.data} ELSE {}]
        /\ response' = r.response
        /\ calls' = r.calls
        /\ IF r.create = {}
             THEN UNCHANGED <<plugins, nextPk, added>>
             ELSE LET plugin == CHOOSE x \in r.create : TRUE
                  IN  /\ plugins' = [q \in DOMAIN plugins \cup {plugin.pk} |->
                                       IF q = plugin.pk THEN plugin
                                       ELSE plugins[q]]
                      /\ nextPk' = nextPk + 1
                      /\ added' = [q \in DOMAIN added \cup {plugin.pk} |->
                            IF q = plugin.pk
                              THEN [plugin |-> plugin, before |-> plugins]
                              ELSE added[q]]
        /\ UNCHANGED <<host_has_validate_add_request, issued, verified,
                       classes, returned>>

\* add_view for any request: the plugin instance the host has set on the
\* descriptor, if any, and what validate_add_request does with the request
\* (drawn only where the handler gets to call it).
add_view ==
    \E plugin_instance \in {{}} \cup {{p} : p \in DOMAIN plugins} :
        IF ~host_has_validate_add_request \/ plugin_instance # {}
          THEN AddViewStep(plugin_instance,
                           [raises |-> "", message |-> "", data |-> <<>>])
          ELSE \E validated \in Validations(plugins) :
                   AddViewStep(plugin_instance, validated)

----------------------------------------------------------------------------
(* delete_on_cancel as a step *)

\* The tokens a client can submit: those the server hands out for stored
\* records, signatures for any type and key, and one signed with another key.
Tokens(store) ==
    {get_cancel_token(store[p]) : p \in DOMAIN store}
    \cup {<<Signature(t, force_text(p))>> : t \in PluginTypes, p \in PKs}
    \cup {<<"mac[forged]">>}

POSTs(store) ==
    [plugin : {{}} \cup {{p} : p \in PKs},
     token : {{}} \cup {{t} : t \in Tokens(store)}]

\* One delete_on_cancel call with the given inputs.
DeleteOnCancelStep(POST, add_perm, ph_perm) ==
    LET r == delete_on_cancel_run(plugins, POST, add_perm, ph_perm)
    IN  /\ request' = [op |-> "delete_on_cancel", POST |-> POST]
        /\ response' = r.response
        /\ calls' = r.calls
        /\ plugins' = IF r.delete = {} THEN plugins
                      ELSE Delete(plugins, CHOOSE p \in r.delete : TRUE)
        /\ UNCHANGED <<nextPk, added, host_has_validate_add_request, issued,
                       verified, classes, returned>>

\* delete_on_cancel for any request: the POST data, what has_add_permission
\* answers per plugin class and what the placeholder's has_add_permission
\* answers for the requesting user (drawn only where the form is valid, the
\* handler asking for neither otherwise).
delete_on_cancel ==
    \E POST \in POSTs(plugins) :
        IF ~is_valid(plugins, POST)
          THEN DeleteOnCancelStep(POST, [t \in PluginTypes |-> FALSE], FALSE)
          ELSE \E add_perm \in [PluginTypes -> BOOLEAN], ph_perm \in BOOLEAN :
                   DeleteOnCancelStep(POST, add_perm, ph_perm)

----------------------------------------------------------------------------
(* save_model *)

\* A mutant of save_model_calls: the cleanup runs before the save.
save_model_calls_clean_first(obj) ==
    <<Call("obj.clean_plugins", "obj", obj.pk, TRUE),
      Call("super.save_model", "self", obj.pk, TRUE)>>

\* The calls save_model makes, in order.
save_model_calls(obj) ==
    <<Call("super.save_model", "self", obj.pk, TRUE),
      Call("obj.clean_plugins", "obj", obj.pk, TRUE)>>

\* CMSPluginBase.save_model: obj.save() writes the record.
Save(store, obj) ==
    [q \in DOMAIN store \cup {obj.pk} |-> IF q = obj.pk THEN obj ELSE store[q]]

\* Text.clean_plugins: the child plugins the body no longer refers to are
\* deleted.
RECURSIVE clean_plugins(_, _, _)
clean_plugins(store, obj, body_ids) ==
    LET stale == Children(store, obj.pk) \ body_ids
    IN  IF stale = {} THEN store
        ELSE clean_plugins(Delete(store, CHOOSE c \in stale : TRUE), obj,
                           body_ids)

\* The table after the calls of save_model have run in their order.
RECURSIVE RunCalls(_, _, _, _)
RunCalls(store, cs, obj, body_ids) ==
    IF cs = <<>> THEN store
    ELSE RunCalls(IF Head(cs).fn = "super.save_model" THEN Save(store, obj)
                  ELSE clean_plugins(store, obj, body_ids),
                  Tail(cs), obj, body_ids)

save_model ==
    \E pk \in DOMAIN plugins :
      \E body_ids \in SUBSET Children(plugins, pk) :
        LET obj == plugins[pk]
            cs == save_model_calls(obj)
            after == RunCalls(plugins, cs, obj, body_ids)
        IN  /\ obj.plugin_type = plugin_type
            /\ request' = [op |-> "save_model", obj |-> pk, body |-> body_ids]
            /\ response' = Response(0, "None", {})
            /\ calls' = cs
            /\ plugins' = after
            /\ UNCHANGED <<nextPk, added, host_has_validate_add_request, issued,
                           verified, classes, returned>>

----------------------------------------------------------------------------
(* The handlers' specification *)

Init ==
    /\ plugins = <<>>
    /\ nextPk = 1
    /\ host_has_validate_add_request \in BOOLEAN
    /\ request = NoRequest
    /\ response = Response(0, "None", {})
    /\ calls = <<>>
    /\ added = <<>>
    /\ issued = {}
    /\ verified = NoRequest
    /\ classes = <<>>
    /\ returned = <<>>

Next == add_view \/ delete_on_cancel \/ save_model

Spec == Init /\ [][Next]_vars

----------------------------------------------------------------------------
(* What the last handler call did, read from its log *)

IsCancel == request.op = "delete_on_cancel"
IsAdd == request.op = "add_view"

\* The positions in the log cs of the calls of fn.
CallsOf(cs, fn) == {i \in 1..Len(cs) : cs[i].fn = fn}

Passed(cs, fn) == \E i \in CallsOf(cs, fn) : cs[i].result
Failed(cs, fn) == \E i \in CallsOf(cs, fn) : ~cs[i].result

\* Both permission checks were made and passed.
PermissionPassed(cs) ==
    Passed(cs, "has_add_permission") /\ Passed(cs, "placeholder.has_add_permission")

\* A permission check was made and failed.
PermissionFailed(cs) ==
    Failed(cs, "has_add_permission") \/ Failed(cs, "placeholder.has_add_permission")

----------------------------------------------------------------------------
(* Claims about delete_on_cancel *)

\* C1: a delete_on_cancel request deletes the record it submits if and only
\* if the form is valid, the add-permission check on the plugin type passes,
\* the placeholder's add-permission check passes and the token is valid; the
\* response is 204 exactly when the record was deleted.
C1_DeleteIffAllGuards ==
    [][request'.op = "delete_on_cancel" =>
        LET POST == request'.POST
            deleted == \E p \in POST.plugin :
                           p \in DOMAIN plugins /\ p \notin DOMAIN plugins'
            guards == /\ is_valid(plugins, POST)
                      /\ PermissionPassed(calls')
                      /\ \A p \in POST.plugin : \A t \in POST.token :
                             is_valid_token(plugins[p], t)
        IN  /\ deleted <=> guards
            /\ (response'.status = 204) <=> deleted]_vars

\* C1 witness: a cancel request was answered 204 and the record it named is
\* gone from the table.
C1_Witness ==
    /\ IsCancel
    /\ response.status = 204
    /\ \E p \in request.POST.plugin : p \notin DOMAIN plugins

\* C2: the token check is made only after both permission checks have
\* passed; a request with a valid form and a failed permission check is
\* answered 403 without the token having been looked at.
C2_PermissionBeforeToken ==
    IsCancel =>
        /\ \A i \in CallsOf(calls, "form.is_valid_token") :
               /\ \E j \in 1..(i - 1) :
                      calls[j].fn = "has_add_permission" /\ calls[j].result
               /\ \E j \in 1..(i - 1) :
                      /\ calls[j].fn = "placeholder.has_add_permission"
                      /\ calls[j].result
        /\ (Passed(calls, "form.is_valid") /\ PermissionFailed(calls)) =>
               /\ response.status = 403
               /\ CallsOf(calls, "form.is_valid_token") = {}

\* C2 witness: a request carrying the valid token of a stored record was
\* refused for lack of permission.
C2_Witness ==
    /\ IsCancel
    /\ PermissionFailed(calls)
    /\ response.status = 403
    /\ \E p \in request.POST.plugin :
           /\ p \in DOMAIN plugins
           /\ request.POST.token = {get_cancel_token(plugins[p])}

\* C4 (as claimed): PermissionDenied in add_view gives 403, ValidationError
\* gives 400; in delete_on_cancel an invalid form gives 400 with the first
\* form error, a failed permission check 403, an invalid token 400, and no
\* status other than 204, 400 and 403 is produced.
C4_FixedResponses ==
    /\ (IsAdd /\ request.raises = "PermissionDenied") => response.status = 403
    /\ (IsAdd /\ request.raises = "ValidationError") => response.status = 400
    /\ IsCancel =>
        /\ response.status \in {204, 400, 403}
        /\ Failed(calls, "form.is_valid") =>
               /\ response.status = 400
               /\ FormErrors(plugins, request.POST) # <<>>
               /\ response.content = FormErrors(plugins, request.POST)[1]
        /\ PermissionFailed(calls) => response.status = 403
        /\ Failed(calls, "form.is_valid_token") => response.status = 400

C7_PermissionByRecordType ==
    (IsCancel /\ Passed(calls, "form.is_valid")) =>
        \A p \in request.POST.plugin :
            LET plugin == added[p].plugin
                asked == CallsOf(calls, "has_add_permission")
            IN  /\ Cardinality(asked) = 1
                /\ \A i \in asked :
                       IF plugin.plugin_type = plugin_type
                         THEN /\ calls[i].on = "self"
                              /\ CallsOf(calls, "get_plugin_class_instance") = {}
                         ELSE /\ calls[i].on = plugin.plugin_type
                              /\ i > 1
                              /\ calls[i - 1] = Call("get_plugin_class_instance",
                                     plugin.plugin_type, p, TRUE)
                /\ (response.status # 403) =>
                       \E j \in CallsOf(calls, "placeholder.has_add_permission") :
                           calls[j].id = plugin.placeholder /\ calls[j].result

\* C7 witness: the record cancelled was of another plugin type than the
\* handling plugin, and that type's permission let the request through.
C7_Witness ==
    /\ IsCancel
    /\ response.status = 204
    /\ \E p \in request.POST.plugin : added[p].plugin.plugin_type # plugin_type

\* C9: a request answered 400 or 403 leaves the table as it was, as does a
\* cancel request with an invalid form; a cancel request calls delete at
\* most once, and on the record named in the form.
C9_ErrorsChangeNothing ==
    [][(request'.op \in {"add_view", "delete_on_cancel"}) =>
        /\ response'.status \in {400, 403} => plugins' = plugins
        /\ request'.op = "delete_on_cancel" =>
            /\ ~is_valid(plugins, request'.POST) => plugins' = plugins
            /\ Cardinality(CallsOf(calls', "plugin.delete")) <= 1
            /\ \A i \in CallsOf(calls', "plugin.delete") :
                   request'.POST.plugin = {calls'[i].id}
            /\ (CallsOf(calls', "plugin.delete") = {}) => plugins' = plugins]_vars

\* C9 witness: a cancel request with a valid form and both permissions was
\* answered 400 for its token, the record it named still stored.
C9_Witness ==
    /\ IsCancel
    /\ response.status = 400
    /\ Failed(calls, "form.is_valid_token")
    /\ \E p \in request.POST.plugin : p \in DOMAIN plugins

----------------------------------------------------------------------------
(* Claims about add_view and save_model *)

\* C6: with validate_add_request available, no plugin instance set and the
\* validation passing, add_view stores exactly one new record, whose
\* language, plugin type, position, placeholder and parent are those of the
\* validated data (no parent when the data name none), and redirects to the
\* edit URL of that record with '?delete-on-cancel' appended; with a plugin
\* instance set or without validate_add_request it stores nothing and hands
\* the request to the base add view.
C6_AddViewCreatesOne ==
    [][request'.op = "add_view" =>
        IF host_has_validate_add_request /\ request'.plugin_instance = {}
          THEN request'.raises = "" =>
                 \E pk \in DOMAIN plugins' \ DOMAIN plugins :
                   \E data \in request'.data :
                     /\ DOMAIN plugins' = DOMAIN plugins \cup {pk}
                     /\ \A q \in DOMAIN plugins : plugins'[q] = plugins[q]
                     /\ plugins'[pk].language = data.plugin_language
                     /\ plugins'[pk].plugin_type = data.plugin_type
                     /\ plugins'[pk].position = data.position
                     /\ plugins'[pk].placeholder = data.placeholder_id
                     /\ plugins'[pk].parent =
                            (IF "plugin_parent" \in DOMAIN data
                               THEN {data.plugin_parent} ELSE {})
                     /\ response'.status = 302
                     /\ response'.location =
                            {<<"cms_page_edit_plugin", force_text(pk),
                               "?delete-on-cancel">>}
          ELSE /\ plugins' = plugins
               /\ calls' = <<Call("super.add_view", "self", 0, TRUE)>>]_vars

\* C6 witness: add_view has stored a record with a parent and redirected.
C6_Witness ==
    /\ IsAdd
    /\ response.status = 302
    /\ \E data \in request.data : "plugin_parent" \in DOMAIN data
    /\ \E pk \in DOMAIN plugins : plugins[pk].parent # {}

\* C8: save_model calls the base save_model and the object's clean_plugins
\* once each, the cleanup after the save.
C8_CleanAfterSave ==
    request.op = "save_model" =>
        LET saves == CallsOf(calls, "super.save_model")
            cleans == CallsOf(calls, "obj.clean_plugins")
        IN  /\ Cardinality(saves) = 1
            /\ Cardinality(cleans) = 1
            /\ \A i \in saves : \A j \in cleans : i < j
            /\ \A j \in cleans : calls[j].id = request.obj

\* C8 witness: a save_model call whose cleanup deleted a child plugin.
C8_Witness ==
    /\ request.op = "save_model"
    /\ \E q \in DOMAIN added :
           /\ added[q].plugin.parent = {request.obj}
           /\ q \notin DOMAIN plugins
           /\ q \notin request.body

----------------------------------------------------------------------------
(* get_cancel_token on its own: SpecToken *)

\* The plugin objects tokens are asked for: any type under any key.
TokenObjects == [pk : 1..MaxTokenPk, plugin_type : PluginTypes]

\* get_cancel_token(obj) is called and what it returned is kept.
GetCancelToken ==
    \E obj \in TokenObjects :
        /\ Cardinality(issued) < MaxIssued
        /\ issued' = issued \cup {[obj |-> obj, token |-> get_cancel_token(obj)]}
        /\ UNCHANGED <<mainVars, verified, classes, returned>>

\* A token that was handed out is submitted for a record and verified.
VerifyToken ==
    \E i \in issued, plugin \in TokenObjects :
        /\ verified' = [op |-> "is_valid_token",
                        same_pk |-> plugin.pk = i.obj.pk,
                        same_type |-> plugin.plugin_type = i.obj.plugin_type,
                        valid |-> is_valid_token(plugin, i.token)]
        /\ UNCHANGED <<mainVars, issued, classes, returned>>

InitToken ==
    /\ plugins = <<>>
    /\ nextPk = 1
    /\ host_has_validate_add_request = TRUE
    /\ request = NoRequest
    /\ response = Response(0, "None", {})
    /\ calls = <<>>
    /\ added = <<>>
    /\ issued = {}
    /\ verified = NoRequest
    /\ classes = <<>>
    /\ returned = <<>>

NextToken == GetCancelToken \/ VerifyToken

SpecToken == InitToken /\ [][NextToken]_vars

\* C3: tokens handed out for two objects with the same primary key and
\* different plugin types differ; an object always gets the same token; a
\* token handed out for a record of one type validates for no record of
\* another type, and a token that validates was handed out for that type
\* and key.
C3_TokenBoundToType ==
    /\ \A a \in issued : \A b \in issued :
           /\ (a.obj.pk = b.obj.pk /\ a.obj.plugin_type # b.obj.plugin_type)
                  => a.token # b.token
           /\ a.obj = b.obj => a.token = b.token
    /\ \A a \in issued : \A plugin \in TokenObjects :
           plugin.plugin_type # a.obj.plugin_type
               => ~is_valid_token(plugin, a.token)
    /\ (verified.op = "is_valid_token" /\ verified.valid)
           => verified.same_type /\ verified.same_pk

\* C3 witness: tokens are out for the same two-digit key under two types,
\* and one of them was just refused for a record of the other type.
C3_Witness ==
    /\ \E a \in issued : \E b \in issued :
           /\ a.obj.pk = b.obj.pk
           /\ a.obj.pk >= 10
           /\ a.obj.plugin_type # b.obj.plugin_type
    /\ verified.op = "is_valid_token"
    /\ verified.same_pk /\ ~verified.same_type /\ ~verified.valid

----------------------------------------------------------------------------
(* get_form_class and get_editor_widget: SpecForm *)

\* settings.TEXT_CKEDITOR_CONFIGURATION, the plugin's ckeditor_configuration
ckeditor_configuration == "CKEDITOR_SETTINGS"

\* django.forms.CharField(widget=..., required=...)
CharField(widget, required) == [widget |-> widget, required |-> required]

\* TextForm, the form declared on the plugin (self.form): a class without a
\* model-side base here, declaring the body field.
TextForm ==
    [base |-> 0,
     declared_fields |-> [body |-> CharField([widget |-> "TextInput"], TRUE)]]

\* The position of self.form in the table of classes.
form == 1

get_editor_widget(plugins_arg, pk, placeholder, language) ==
    [widget |-> "TextEditorWidget",
     installed_plugins |-> plugins_arg,
     pk |-> pk,
     placeholder |-> placeholder,
     plugin_language |-> language,
     configuration |-> ckeditor_configuration]

\* d[key] = value on a dict
DictSet(d, key, value) ==
    [k \in DOMAIN d \cup {key} |-> IF k = key THEN value ELSE d[k]]

\* `class TextPluginForm(base): pass`: the forms metaclass gives the new
\* class a declared_fields dict of its own, filled from its bases.
NewSubclass(table, base) ==
    Append(table, [base |-> base,
                   declared_fields |-> table[base].declared_fields])

\* A mutant of get_form_class: the body field is set on the declared form
\* itself, which is returned.
get_form_class_in_place(table, plugins_arg, pk, placeholder, language) ==
    LET widget == get_editor_widget(plugins_arg, pk, placeholder, language)
    IN  [classes |-> [table EXCEPT ![form].declared_fields =
                         DictSet(@, "body", CharField(widget, FALSE))],
         result |-> form]

\* get_form_class on the table of classes: the table afterwards and the
\* class returned.
get_form_class(table, plugins_arg, pk, placeholder, language) ==
    LET subclassed == NewSubclass(table, form)
        TextPluginForm == Len(subclassed)
        widget == get_editor_widget(plugins_arg, pk, placeholder, language)
    IN  [classes |-> [subclassed EXCEPT ![TextPluginForm].declared_fields =
                         DictSet(@, "body", CharField(widget, FALSE))],
         result |-> TextPluginForm]

\* The toolbar plugin structs, placeholders and languages drawn for a call.
PluginStructs == {<<>>, <<"LinkPlugin">>}
FormPlaceholders == {"content", "sidebar"}
FormLanguages == {"en", "de"}

GetFormClass ==
    \E plugins_arg \in PluginStructs, pk \in PKs,
       placeholder \in FormPlaceholders, language \in FormLanguages :
        LET r == get_form_class(classes, plugins_arg, pk, placeholder, language)
        IN  /\ Len(returned) < MaxFormCalls
            /\ classes' = r.classes
            /\ returned' = Append(returned,
                   [plugins |-> plugins_arg, pk |-> pk,
                    placeholder |-> placeholder, language |-> language,
                    class |-> r.result])
            /\ UNCHANGED <<mainVars, issued, verified>>

InitForm ==
    /\ plugins = <<>>
    /\ nextPk = 1
    /\ host_has_validate_add_request = TRUE
    /\ request = NoRequest
    /\ response = Response(0, "None", {})
    /\ calls = <<>>
    /\ added = <<>>
    /\ issued = {}
    /\ verified = NoRequest
    /\ classes = <<TextForm>>
    /\ returned = <<>>

NextForm == GetFormClass

SpecForm == InitForm /\ [][NextForm]_vars

\* C10: after any get_form_class calls the declared fields of the plugin's
\* form are those it was declared with; every call returned a class of its
\* own that is a subclass of the plugin's form, and the body field of that
\* class holds the editor widget of that call's plugins, pk, placeholder
\* and language.
C10_FormNotMutated ==
    /\ classes[form] = TextForm
    /\ \A i \in 1..Len(returned) :
           LET cls == returned[i].class
           IN  /\ cls # form
               /\ cls \in 1..Len(classes)
               /\ classes[cls].base = form
               /\ \A j \in 1..Len(returned) :
                      j # i => returned[j].class # cls
               /\ classes[cls].declared_fields.body.widget =
                      [widget |-> "TextEditorWidget",
                       installed_plugins |-> returned[i].plugins,
                       pk |-> returned[i].pk,
                       placeholder |-> returned[i].placeholder,
                       plugin_language |-> returned[i].language,
                       configuration |-> "CKEDITOR_SETTINGS"]

\* C10 witness: two calls with different arguments have returned.
C10_Witness ==
    /\ Len(returned) >= 2
    /\ returned[1].pk # returned[2].pk
    /\ returned[1].language # returned[2].language
    /\ returned[1].placeholder # returned[2].placeholder
    /\ returned[1].plugins # returned[2].plugins

====
